---- MODULE Spec2Model ----
(***************************************************************************)
(* Clothing Shop API (src/main.py): the cart and checkout handlers over    *)
(* the document store collections product, cart and order.                 *)
(*                                                                         *)
(* Requests run in request slots (FastAPI runs the synchronous handlers on *)
(* a thread pool).  Under Spec every handler is cut at its calls to the    *)
(* document store: one step is one store call (find_one, insert_one,       *)
(* update_one) together with the local computation around it, and the      *)
(* steps of two requests interleave freely.  Under SeqSpec and CartSpec    *)
(* requests arrive one at a time and a step is a whole handler.            *)
(*                                                                         *)
(* Money is counted in thousandths of the currency unit (29.0 is 29000),   *)
(* one digit finer than the two fraction digits checkout rounds to; the    *)
(* handlers are modelled with the store available (db is not None).        *)
(***************************************************************************)
EXTENDS Integers, Sequences, FiniteSets, TLC

VARIABLES product, cart, order, pc, req, loc, resp

vars == <<product, cart, order, pc, req, loc, resp>>

(***************************************************************************)
(* Bounds of the model.                                                    *)
(***************************************************************************)
\* a request is admitted only while it leaves the total quantity of its cart,
\* as stored, at most this
MaxQty == 4
\* a checkout is admitted only while the orders stored and being written are
\* fewer than this
MaxOrders == 1

\* request slots (handlers in flight at the same time)
Procs == {"r1", "r2"}

\* Product identifiers as the caller sends them: "p1" and "p2" are the
\* identifiers of the first two seeded products, "P1" is the first one written
\* in upper-case hex digits, "p9" is a well-formed identifier of no product and
\* "bad" is no ObjectId.

\* inputs of the requests under the interleaved specification, which admits
\* one checkout
ConcInputs ==
    [carts |-> {"abc"},
     addCarts |-> {"abc"},
     lines |-> {<<"p1", "M">>, <<"p2", "L">>},
     addQty |-> {1},
     updQty |-> {0, 2},
     customers |-> {"alice"},
     maxQty |-> MaxQty - 2,
     maxOrders |-> 1]

\* inputs of the requests under the sequential specification: only the cart
\* "abc" is added to
SeqInputs ==
    [carts |-> {"abc", "xyz"},
     addCarts |-> {"abc"},
     lines |-> {<<"p1", "M">>, <<"p2", "L">>, <<"p9", "M">>, <<"bad", "M">>},
     addQty |-> {1, 2},
     updQty |-> {0, 3},
     customers |-> {"alice"},
     maxQty |-> MaxQty - 1,
     maxOrders |-> MaxOrders]

\* inputs of the requests under the interleaved specification of addItem and
\* checkout, which admits one checkout more
RaceInputs ==
    [carts |-> {"abc"},
     addCarts |-> {"abc"},
     lines |-> {<<"p1", "M">>, <<"p2", "L">>},
     addQty |-> {1},
     updQty |-> {},
     customers |-> {"alice"},
     maxQty |-> MaxQty - 2,
     maxOrders |-> MaxOrders + 1]

\* inputs of the requests under the specification with catalog edits
PriceInputs ==
    [carts |-> {"abc"},
     addCarts |-> {"abc"},
     lines |-> {<<"p1", "M">>, <<"p2", "L">>},
     addQty |-> {1, 2},
     updQty |-> {0, 3},
     customers |-> {"alice"},
     maxQty |-> MaxQty - 1,
     maxOrders |-> MaxOrders]

\* inputs of the requests under the specification of the cart mutations
CartInputs ==
    [carts |-> {"abc", "xyz"},
     addCarts |-> {"abc"},
     lines |-> {<<"p1", "M">>, <<"P1", "M">>, <<"p2", "M">>, <<"p1", "L">>,
                <<"p9", "M">>, <<"bad", "M">>},
     addQty |-> {0, 1, 2},
     updQty |-> {-1, 0, 1, 3},
     customers |-> {"alice"},
     maxQty |-> MaxQty,
     maxOrders |-> 0]

(***************************************************************************)
(* Values.                                                                 *)
(***************************************************************************)
None == "None"

InvalidId == 0

\* bson.ObjectId(s): the identifier a string denotes, InvalidId when the
\* constructor raises
ObjectId(s) ==
    CASE s = "p1" -> 1
      [] s = "P1" -> 1
      [] s = "p2" -> 2
      [] s = "p3" -> 3
      [] s = "p9" -> 9
      [] OTHER -> InvalidId

\* the catalog after seed_database: SEED_PRODUCTS under generated identifiers
SEED_PRODUCTS ==
    (1 :> [title |-> "Classic Logo Tee", price |-> 29000, images |-> <<"img-tee">>])
    @@ (2 :> [title |-> "Heavyweight Hoodie", price |-> 69000, images |-> <<"img-hoodie">>])
    @@ (3 :> [title |-> "Tapered Joggers", price |-> 59000, images |-> <<"img-joggers">>])

\* the first product as catalog management leaves it after an edit
EditedProduct ==
    [title |-> "Classic Logo Tee II", price |-> 35000, images |-> <<"img-tee-ii">>]

NoProduct == [title |-> None, price |-> 0, images |-> <<>>]

NoReq ==
    [op |-> "none", cart_id |-> None, product_id |-> None, size |-> None,
     quantity |-> 0, customer |-> None]

NoLoc == [product |-> NoProduct, items |-> <<>>, total |-> 0, inserted_id |-> 0]

NoResp ==
    [status |-> 0, detail |-> None, items |-> <<>>, total |-> 0, order_id |-> 0,
     product |-> NoProduct]

(***************************************************************************)
(* The document store: a collection is the sequence of its documents in    *)
(* insertion order.                                                        *)
(***************************************************************************)
\* positions of the documents of collection coll that match {"cart_id": c}
Matching(coll, c) == {i \in 1..Len(coll) : coll[i].cart_id = c}

Min(S) == CHOOSE x \in S : \A y \in S : x <= y

\* db["cart"].find_one({"cart_id": c}): the position of the first matching
\* document, 0 when there is none
find_one(coll, c) == IF Matching(coll, c) = {} THEN 0 ELSE Min(Matching(coll, c))

\* db["cart"].insert_one(doc)
insert_one(coll, doc) == Append(coll, doc)

\* db["cart"].update_one({"cart_id": c}, {"$set": {"items": items}}, upsert):
\* the first matching document gets the items; with none, an upsert inserts
\* the filter's fields with the items and a plain update does nothing
update_one(coll, c, items, upsert) ==
    LET i == find_one(coll, c) IN
    IF i # 0 THEN [coll EXCEPT ![i].items = items]
    ELSE IF upsert THEN Append(coll, [cart_id |-> c, items |-> items])
    ELSE coll

\* db["product"].find_one({"_id": oid}): the product, NoProduct when absent
find_product(coll, oid) == IF oid \in DOMAIN coll THEN coll[oid] ELSE NoProduct

(***************************************************************************)
(* The line item algorithms of the handlers.                               *)
(***************************************************************************)
SameLine(it, payload) ==
    it.product_id = payload.product_id /\ it.size = payload.size

\* positions of the lines of items that match the payload's product and size
MatchingLines(items, payload) ==
    {i \in 1..Len(items) : SameLine(items[i], payload)}

\* add_to_cart: the new line, with the snapshots of the product as found
NewLine(payload, prod) ==
    [product_id |-> payload.product_id,
     size |-> payload.size,
     quantity |-> payload.quantity,
     price_snapshot |-> prod.price,
     title_snapshot |-> prod.title,
     image_snapshot |-> IF prod.images = <<>> THEN None ELSE prod.images[1]]

\* add_to_cart with the quantity of the matching line overwritten
MergeItems_Overwrite(items, payload, prod) ==
    LET m == MatchingLines(items, payload) IN
    IF m # {}
    THEN [items EXCEPT ![Min(m)].quantity = payload.quantity]
    ELSE Append(items, NewLine(payload, prod))

\* add_to_cart without the merge: the new line is always appended
MergeItems_Append(items, payload, prod) == Append(items, NewLine(payload, prod))

\* add_to_cart taking the snapshots of the matching line again
MergeItems_Refresh(items, payload, prod) ==
    LET m == MatchingLines(items, payload) IN
    IF m # {}
    THEN [items EXCEPT ![Min(m)] =
             [NewLine(payload, prod) EXCEPT !.quantity = items[Min(m)].quantity + payload.quantity]]
    ELSE Append(items, NewLine(payload, prod))

\* add_to_cart: the first matching line gets the quantity added (the loop
\* breaks at it); with none the new line is appended
MergeItems(items, payload, prod) ==
    LET m == MatchingLines(items, payload) IN
    IF m # {}
    THEN [items EXCEPT ![Min(m)].quantity = @ + payload.quantity]
    ELSE Append(items, NewLine(payload, prod))

\* update_cart_item keeping the matching line when the quantity is 0
UpdateItems_KeepZero(items, payload) ==
    [i \in 1..Len(items) |->
        IF SameLine(items[i], payload)
        THEN [items[i] EXCEPT !.quantity = payload.quantity]
        ELSE items[i]]

\* update_cart_item adding the quantity to the matching line
UpdateItems_Increment(items, payload) ==
    [i \in 1..Len(items) |->
        IF SameLine(items[i], payload)
        THEN [items[i] EXCEPT !.quantity = @ + payload.quantity]
        ELSE items[i]]

\* update_cart_item: every matching line gets the quantity when it is
\* positive and is left out when it is 0; the other lines pass through
RECURSIVE LinesTotal_NoQuantity(_)
RECURSIVE UpdateItems(_, _)
UpdateItems(items, payload) ==
    IF items = <<>> THEN <<>>
    ELSE LET it == Head(items)
             rest == UpdateItems(Tail(items), payload)
         IN IF SameLine(it, payload)
            THEN IF payload.quantity > 0
                 THEN <<[it EXCEPT !.quantity = payload.quantity]>> \o rest
                 ELSE rest
            ELSE <<it>> \o rest

\* remove_cart_item matching on the product alone
RemoveItems_AnySize(items, payload) ==
    SelectSeq(items, LAMBDA it : it.product_id # payload.product_id)

\* remove_cart_item: the lines that do not match
RemoveItems(items, payload) ==
    SelectSeq(items, LAMBDA it : ~SameLine(it, payload))

\* checkout summing the prices without the quantities
LinesTotal_NoQuantity(items) ==
    IF items = <<>> THEN 0
    ELSE Head(items).price_snapshot + LinesTotal_NoQuantity(Tail(items))

\* checkout: sum of price_snapshot * quantity over the lines
RECURSIVE LinesTotal(_)
LinesTotal(items) ==
    IF items = <<>> THEN 0
    ELSE Head(items).price_snapshot * Head(items).quantity + LinesTotal(Tail(items))

\* round(total, 2): the nearest amount with two fraction digits (a multiple
\* of 10 thousandths), a tie going to the even hundredth
Round2(total) ==
    LET down == (total \div 10) * 10
        r == total % 10
    IN IF r < 5 THEN down
       ELSE IF r > 5 THEN down + 10
       ELSE IF (down \div 10) % 2 = 0 THEN down ELSE down + 10

\* CartItem(**i): the schema of a line (quantity >= 1)
ValidCartItem(it) == it.quantity >= 1

(***************************************************************************)
(* Responses.                                                              *)
(***************************************************************************)
\* raise HTTPException(status_code, detail); 422 is the payload validation of
\* the framework, 500 an exception no handler catches
Error(status, detail) == [NoResp EXCEPT !.status = status, !.detail = detail]

\* return Cart(cart_id=cart_id, items=[CartItem(**i) for i in items])
CartResponse(items) ==
    IF \A i \in 1..Len(items) : ValidCartItem(items[i])
    THEN [NoResp EXCEPT !.status = 200, !.items = items]
    ELSE Error(500, "Internal Server Error")

\* the handler of slot p returns r
Return(p, r) ==
    /\ pc' = [pc EXCEPT ![p] = "done"]
    /\ resp' = [resp EXCEPT ![p] = r]
    /\ req' = [req EXCEPT ![p] = NoReq]
    /\ loc' = [loc EXCEPT ![p] = NoLoc]

\* what is left of a request once its handler only needs the cart identifier
Rest(request) == [NoReq EXCEPT !.op = request.op, !.cart_id = request.cart_id]

\* the handler of slot p goes on to its next store call, still needing
\* request and local
Goto(p, label, request, local) ==
    /\ pc' = [pc EXCEPT ![p] = label]
    /\ req' = [req EXCEPT ![p] = request]
    /\ loc' = [loc EXCEPT ![p] = local]
    /\ UNCHANGED resp

Items(coll, c) == IF find_one(coll, c) = 0 THEN <<>> ELSE coll[find_one(coll, c)].items

(***************************************************************************)
(* Payloads.                                                               *)
(***************************************************************************)
AddItemPayload(c, pid, s, q) ==
    [NoReq EXCEPT !.op = "add_to_cart", !.cart_id = c, !.product_id = pid,
                  !.size = s, !.quantity = q]

UpdateItemPayload(c, pid, s, q) ==
    [NoReq EXCEPT !.op = "update_cart_item", !.cart_id = c, !.product_id = pid,
                  !.size = s, !.quantity = q]

RemoveItemPayload(c, pid, s) ==
    [NoReq EXCEPT !.op = "remove_cart_item", !.cart_id = c, !.product_id = pid,
                  !.size = s]

CheckoutPayload(c, cust) ==
    [NoReq EXCEPT !.op = "checkout", !.cart_id = c, !.customer = cust]

(***************************************************************************)
(* What the handlers compute between their store calls.                    *)
(***************************************************************************)
\* get_cart: the collection after the handler, which inserts an empty cart
\* when it finds none
GetCartColl(coll, c) ==
    IF find_one(coll, c) # 0 THEN coll
    ELSE insert_one(coll, [cart_id |-> c, items |-> <<>>])

\* add_to_cart with a payload whose quantity has no lower bound
AddItemError_AnyQuantity(coll, payload) ==
    IF ObjectId(payload.product_id) = InvalidId
    THEN Error(500, "Internal Server Error")
    ELSE IF find_product(coll, ObjectId(payload.product_id)) = NoProduct
    THEN Error(404, "Product not found")
    ELSE NoResp

\* add_to_cart going on without a product
AddItemError_NoLookup(coll, payload) ==
    IF payload.quantity < 1 THEN Error(422, "Unprocessable Entity")
    ELSE IF ObjectId(payload.product_id) = InvalidId
    THEN Error(500, "Internal Server Error")
    ELSE NoResp

\* add_to_cart up to its product lookup: the error it ends with, NoResp when
\* it goes on (quantity >= 1 is the payload's schema; ObjectId raises on a
\* string that is no identifier and nothing catches it)
AddItemError(coll, payload) ==
    IF payload.quantity < 1 THEN Error(422, "Unprocessable Entity")
    ELSE IF ObjectId(payload.product_id) = InvalidId
    THEN Error(500, "Internal Server Error")
    ELSE IF find_product(coll, ObjectId(payload.product_id)) = NoProduct
    THEN Error(404, "Product not found")
    ELSE NoResp

\* update_cart_item going on without a cart, which its upsert then creates
UpdateItemError_NoCartCheck(coll, payload) ==
    IF payload.quantity < 0 THEN Error(422, "Unprocessable Entity") ELSE NoResp

\* update_cart_item up to its cart lookup (quantity >= 0 is the payload's
\* schema)
UpdateItemError(coll, payload) ==
    IF payload.quantity < 0 THEN Error(422, "Unprocessable Entity")
    ELSE IF find_one(coll, payload.cart_id) = 0 THEN Error(404, "Cart not found")
    ELSE NoResp

\* remove_cart_item up to its cart lookup
RemoveItemError(coll, payload) ==
    IF find_one(coll, payload.cart_id) = 0 THEN Error(404, "Cart not found")
    ELSE NoResp

\* checkout failing only on a cart that is not stored
CheckoutError_ExistsOnly(coll, payload) ==
    IF find_one(coll, payload.cart_id) = 0 THEN Error(400, "Cart is empty") ELSE NoResp

\* checkout up to its cart lookup: not cart or not cart.get("items")
CheckoutError(coll, payload) ==
    IF find_one(coll, payload.cart_id) = 0 \/ Items(coll, payload.cart_id) = <<>>
    THEN Error(400, "Cart is empty")
    ELSE NoResp

\* checkout: the items read and their total
CheckoutLocal(coll, payload) ==
    [NoLoc EXCEPT !.items = Items(coll, payload.cart_id),
                  !.total = LinesTotal(Items(coll, payload.cart_id))]

\* the order document built from the cart as emptied
OrderDoc_NoItems(id, payload, local) ==
    [id |-> id,
     cart_id |-> payload.cart_id,
     items |-> <<>>,
     total |-> Round2(local.total),
     customer |-> payload.customer,
     status |-> "received"]

\* the order document of checkout, under the identifier the store gives it
OrderDoc(id, payload, local) ==
    [id |-> id,
     cart_id |-> payload.cart_id,
     items |-> local.items,
     total |-> Round2(local.total),
     customer |-> payload.customer,
     status |-> "received"]

\* the receipt of checkout
Receipt(local) ==
    [NoResp EXCEPT !.status = 200, !.detail = "received",
                   !.order_id = local.inserted_id, !.total = Round2(local.total)]

\* get_product
ProductResponse(coll, pid) ==
    IF ObjectId(pid) = InvalidId THEN Error(400, "Invalid product id")
    ELSE IF find_product(coll, ObjectId(pid)) = NoProduct
    THEN Error(404, "Product not found")
    ELSE [NoResp EXCEPT !.status = 200, !.product = find_product(coll, ObjectId(pid))]

(***************************************************************************)
(* Admission of requests: the bounds of the model.                         *)
(***************************************************************************)
RECURSIVE TotalQty(_)
TotalQty(items) ==
    IF items = <<>> THEN 0 ELSE Head(items).quantity + TotalQty(Tail(items))

Max(S) == CHOOSE x \in S : \A y \in S : x >= y

\* the slots whose handler holds a line sequence it is about to write to cart c
Writers(c) ==
    {q \in Procs : /\ pc[q] \in {"add_update", "update_update", "remove_update"}
                   /\ req[q].cart_id = c}

\* the largest total quantity cart c holds or is about to be given
Peak(c) == Max({TotalQty(Items(cart, c))} \cup {TotalQty(loc[q].items) : q \in Writers(c)})

\* the quantity of the addItem requests on cart c that have not read it yet
RECURSIVE Pending(_, _)
Pending(c, S) ==
    IF S = {} THEN 0
    ELSE LET q == CHOOSE x \in S : TRUE
         IN (IF pc[q] = "add_find" /\ req[q].cart_id = c THEN req[q].quantity ELSE 0)
            + Pending(c, S \ {q})

AdmitAdd(payload, In) ==
    Peak(payload.cart_id) + Pending(payload.cart_id, Procs) + payload.quantity <= In.maxQty

AdmitUpdate(payload, In) ==
    TotalQty(UpdateItems(Items(cart, payload.cart_id), payload))
        + Pending(payload.cart_id, Procs) <= In.maxQty

AdmitCheckout(In) ==
    Len(order) + Cardinality({q \in Procs : pc[q] = "checkout_insert"}) < In.maxOrders

(***************************************************************************)
(* The handlers, one store call a step.                                    *)
(***************************************************************************)
\* cart = db["cart"].find_one(...): a cart found is returned, otherwise the
\* handler goes on to insert an empty one
GetCartFind(p, c) ==
    /\ IF find_one(cart, c) # 0
       THEN Return(p, CartResponse(Items(cart, c)))
       ELSE Goto(p, "get_cart_insert", [NoReq EXCEPT !.op = "get_cart", !.cart_id = c], NoLoc)
    /\ UNCHANGED <<product, cart, order>>

get_cart(p, In) ==
    /\ pc[p] = "idle"
    /\ \E c \in In.carts : GetCartFind(p, c)

\* db["cart"].insert_one(cart_doc); return the empty cart
get_cart_insert(p) ==
    /\ pc[p] = "get_cart_insert"
    /\ cart' = insert_one(cart, [cart_id |-> req[p].cart_id, items |-> <<>>])
    /\ Return(p, CartResponse(<<>>))
    /\ UNCHANGED <<product, order>>

\* return get_cart(cart_id), the last statement of the three cart mutations
return_get_cart(p) ==
    /\ pc[p] = "return_get_cart"
    /\ GetCartFind(p, req[p].cart_id)

\* product = db["product"].find_one(...)
add_to_cart(p, In) ==
    /\ pc[p] = "idle"
    /\ \E c \in In.addCarts, l \in In.lines, q \in In.addQty :
         LET payload == AddItemPayload(c, l[1], l[2], q)
         IN /\ AdmitAdd(payload, In)
            /\ IF AddItemError(product, payload) # NoResp
               THEN Return(p, AddItemError(product, payload))
               ELSE Goto(p, "add_find", payload,
                         [NoLoc EXCEPT !.product = find_product(product, ObjectId(l[1]))])
    /\ UNCHANGED <<product, cart, order>>

\* cart = db["cart"].find_one(...) and the merge of the new line
add_find(p) ==
    /\ pc[p] = "add_find"
    /\ Goto(p, "add_update", Rest(req[p]),
            [NoLoc EXCEPT !.items = MergeItems(Items(cart, req[p].cart_id), req[p],
                                               loc[p].product)])
    /\ UNCHANGED <<product, cart, order>>

\* add_to_cart writing with a push of its lines that are not stored, which
\* keeps the lines other requests have stored
add_update_Push(p) ==
    LET stored == Items(cart, req[p].cart_id)
        fresh == SelectSeq(loc[p].items,
                           LAMBDA it : \A i \in 1..Len(stored) : ~SameLine(stored[i], it))
    IN /\ pc[p] = "add_update"
       /\ cart' = update_one(cart, req[p].cart_id, stored \o fresh, TRUE)
       /\ Goto(p, "return_get_cart", req[p], NoLoc)
       /\ UNCHANGED <<product, order>>

\* db["cart"].update_one(..., {"$set": {"items": items}}, upsert=True)
add_update(p) ==
    /\ pc[p] = "add_update"
    /\ cart' = update_one(cart, req[p].cart_id, loc[p].items, TRUE)
    /\ Goto(p, "return_get_cart", req[p], NoLoc)
    /\ UNCHANGED <<product, order>>

\* cart = db["cart"].find_one(...) and the new line sequence
update_cart_item(p, In) ==
    /\ pc[p] = "idle"
    /\ \E c \in In.carts, l \in In.lines, q \in In.updQty :
         LET payload == UpdateItemPayload(c, l[1], l[2], q)
         IN /\ AdmitUpdate(payload, In)
            /\ IF UpdateItemError(cart, payload) # NoResp
               THEN Return(p, UpdateItemError(cart, payload))
               ELSE Goto(p, "update_update", Rest(payload),
                         [NoLoc EXCEPT !.items = UpdateItems(Items(cart, c), payload)])
    /\ UNCHANGED <<product, cart, order>>

\* db["cart"].update_one(..., {"$set": {"items": new_items}}, upsert=True)
update_update(p) ==
    /\ pc[p] = "update_update"
    /\ cart' = update_one(cart, req[p].cart_id, loc[p].items, TRUE)
    /\ Goto(p, "return_get_cart", req[p], NoLoc)
    /\ UNCHANGED <<product, order>>

\* cart = db["cart"].find_one(...) and the remaining lines
remove_cart_item(p, In) ==
    /\ pc[p] = "idle"
    /\ \E c \in In.carts, l \in In.lines :
         LET payload == RemoveItemPayload(c, l[1], l[2])
         IN IF RemoveItemError(cart, payload) # NoResp
            THEN Return(p, RemoveItemError(cart, payload))
            ELSE Goto(p, "remove_update", Rest(payload),
                      [NoLoc EXCEPT !.items = RemoveItems(Items(cart, c), payload)])
    /\ UNCHANGED <<product, cart, order>>

\* db["cart"].update_one(..., {"$set": {"items": items}})
remove_update(p) ==
    /\ pc[p] = "remove_update"
    /\ cart' = update_one(cart, req[p].cart_id, loc[p].items, FALSE)
    /\ Goto(p, "return_get_cart", req[p], NoLoc)
    /\ UNCHANGED <<product, order>>

\* cart = db["cart"].find_one(...) and the total
checkout(p, In) ==
    /\ pc[p] = "idle"
    /\ AdmitCheckout(In)
    /\ \E c \in In.carts, cust \in In.customers :
         LET payload == CheckoutPayload(c, cust)
         IN IF CheckoutError(cart, payload) # NoResp
            THEN Return(p, CheckoutError(cart, payload))
            ELSE Goto(p, "checkout_insert", payload, CheckoutLocal(cart, payload))
    /\ UNCHANGED <<product, cart, order>>

\* checkout with its two writes in the other order: the cart is emptied first
checkout_insert_ResetFirst(p) ==
    /\ pc[p] = "checkout_insert"
    /\ cart' = update_one(cart, req[p].cart_id, <<>>, FALSE)
    /\ Goto(p, "checkout_update", Rest(req[p]), [NoLoc EXCEPT !.total = loc[p].total])
    /\ UNCHANGED <<product, order>>

\* inserted_id = db["order"].insert_one(order_doc).inserted_id
checkout_insert(p) ==
    /\ pc[p] = "checkout_insert"
    /\ order' = Append(order, OrderDoc(Len(order) + 1, req[p], loc[p]))
    /\ Goto(p, "checkout_update", Rest(req[p]),
            [NoLoc EXCEPT !.inserted_id = Len(order) + 1, !.total = loc[p].total])
    /\ UNCHANGED <<product, cart>>

\* checkout emptying the list its order holds along with the cart
checkout_update_SharedItems(p) ==
    /\ pc[p] = "checkout_update"
    /\ cart' = update_one(cart, req[p].cart_id, <<>>, FALSE)
    /\ order' = [i \in 1..Len(order) |->
                    IF order[i].id = loc[p].inserted_id
                    THEN [order[i] EXCEPT !.items = <<>>]
                    ELSE order[i]]
    /\ Return(p, Receipt(loc[p]))
    /\ UNCHANGED product

\* db["cart"].update_one(..., {"$set": {"items": []}}) and the receipt
checkout_update(p) ==
    /\ pc[p] = "checkout_update"
    /\ cart' = update_one(cart, req[p].cart_id, <<>>, FALSE)
    /\ Return(p, Receipt(loc[p]))
    /\ UNCHANGED <<product, order>>

get_product(p, In) ==
    /\ pc[p] = "idle"
    /\ \E l \in In.lines : Return(p, ProductResponse(product, l[1]))
    /\ UNCHANGED <<product, cart, order>>

\* the response of slot p is sent; the slot takes the next request
respond(p) ==
    /\ pc[p] = "done"
    /\ pc' = [pc EXCEPT ![p] = "idle"]
    /\ resp' = [resp EXCEPT ![p] = NoResp]
    /\ UNCHANGED <<product, cart, order, req, loc>>

(***************************************************************************)
(* The handlers, a whole request a step.                                   *)
(***************************************************************************)
GetCart(p, c) ==
    /\ pc[p] = "idle"
    /\ cart' = GetCartColl(cart, c)
    /\ Return(p, CartResponse(Items(cart, c)))
    /\ UNCHANGED <<product, order>>

\* a cart mutation that writes items: the update, then return get_cart(cart_id)
WriteCart(p, c, items, upsert) ==
    LET written == update_one(cart, c, items, upsert)
    IN /\ cart' = GetCartColl(written, c)
       /\ Return(p, CartResponse(Items(written, c)))

AddToCart(p, c, pid, s, q) ==
    LET payload == AddItemPayload(c, pid, s, q)
        prod == find_product(product, ObjectId(pid))
    IN /\ pc[p] = "idle"
       /\ IF AddItemError(product, payload) # NoResp
          THEN cart' = cart /\ Return(p, AddItemError(product, payload))
          ELSE WriteCart(p, c, MergeItems(Items(cart, c), payload, prod), TRUE)
       /\ UNCHANGED <<product, order>>

UpdateCartItem(p, c, pid, s, q) ==
    LET payload == UpdateItemPayload(c, pid, s, q)
    IN /\ pc[p] = "idle"
       /\ IF UpdateItemError(cart, payload) # NoResp
          THEN cart' = cart /\ Return(p, UpdateItemError(cart, payload))
          ELSE WriteCart(p, c, UpdateItems(Items(cart, c), payload), TRUE)
       /\ UNCHANGED <<product, order>>

RemoveCartItem(p, c, pid, s) ==
    LET payload == RemoveItemPayload(c, pid, s)
    IN /\ pc[p] = "idle"
       /\ IF RemoveItemError(cart, payload) # NoResp
          THEN cart' = cart /\ Return(p, RemoveItemError(cart, payload))
          ELSE WriteCart(p, c, RemoveItems(Items(cart, c), payload), FALSE)
       /\ UNCHANGED <<product, order>>

\* checkout deleting the cart document instead of emptying it
Checkout_DeletesCart(p, c, cust) ==
    LET payload == CheckoutPayload(c, cust)
        local == [CheckoutLocal(cart, payload) EXCEPT !.inserted_id = Len(order) + 1]
    IN /\ pc[p] = "idle"
       /\ IF CheckoutError(cart, payload) # NoResp
          THEN /\ UNCHANGED <<cart, order>>
               /\ Return(p, CheckoutError(cart, payload))
          ELSE /\ order' = Append(order, OrderDoc(Len(order) + 1, payload, local))
               /\ cart' = SelectSeq(cart, LAMBDA d : d.cart_id # c)
               /\ Return(p, Receipt(local))
       /\ UNCHANGED product

Checkout(p, c, cust) ==
    LET payload == CheckoutPayload(c, cust)
        local == [CheckoutLocal(cart, payload) EXCEPT !.inserted_id = Len(order) + 1]
    IN /\ pc[p] = "idle"
       /\ IF CheckoutError(cart, payload) # NoResp
          THEN /\ UNCHANGED <<cart, order>>
               /\ Return(p, CheckoutError(cart, payload))
          ELSE /\ order' = Append(order, OrderDoc(Len(order) + 1, payload, local))
               /\ cart' = update_one(cart, c, <<>>, FALSE)
               /\ Return(p, Receipt(local))
       /\ UNCHANGED product

GetProduct(p, pid) ==
    /\ pc[p] = "idle"
    /\ Return(p, ProductResponse(product, pid))
    /\ UNCHANGED <<product, cart, order>>

\* the handler of slot p stops between two of its store calls (its worker is
\* killed, or the connection to the store is lost) and sends no response
crash(p) ==
    /\ pc[p] \notin {"idle", "done"}
    /\ pc' = [pc EXCEPT ![p] = "idle"]
    /\ req' = [req EXCEPT ![p] = NoReq]
    /\ loc' = [loc EXCEPT ![p] = NoLoc]
    /\ UNCHANGED <<product, cart, order, resp>>

\* catalog management, outside the handlers, edits the price, title and images
\* of the first product
edit_product ==
    /\ product[1] # EditedProduct
    /\ product' = [product EXCEPT ![1] = EditedProduct]
    /\ UNCHANGED <<cart, order, pc, req, loc, resp>>

(***************************************************************************)
(* Specifications.                                                         *)
(***************************************************************************)
Init ==
    /\ product = SEED_PRODUCTS
    /\ cart = <<>>
    /\ order = <<>>
    /\ pc = [p \in Procs |-> "idle"]
    /\ req = [p \in Procs |-> NoReq]
    /\ loc = [p \in Procs |-> NoLoc]
    /\ resp = [p \in Procs |-> NoResp]

\* requests interleave at their store calls
Next ==
    \E p \in Procs :
        \/ get_cart(p, ConcInputs)
        \/ get_cart_insert(p)
        \/ return_get_cart(p)
        \/ add_to_cart(p, ConcInputs)
        \/ add_find(p)
        \/ add_update(p)
        \/ update_cart_item(p, ConcInputs)
        \/ update_update(p)
        \/ remove_cart_item(p, ConcInputs)
        \/ remove_update(p)
        \/ checkout(p, ConcInputs)
        \/ checkout_insert(p)
        \/ checkout_update(p)
        \/ get_product(p, ConcInputs)
        \/ respond(p)

Spec == Init /\ [][Next]_vars

\* the requests the caller sends, admitted within the bounds
GetCartRequest(p, In) == \E c \in In.carts : GetCart(p, c)

AddToCartRequest(p, In) ==
    \E c \in In.addCarts, l \in In.lines, q \in In.addQty :
        AdmitAdd(AddItemPayload(c, l[1], l[2], q), In) /\ AddToCart(p, c, l[1], l[2], q)

UpdateCartItemRequest(p, In) ==
    \E c \in In.carts, l \in In.lines, q \in In.updQty :
        AdmitUpdate(UpdateItemPayload(c, l[1], l[2], q), In)
        /\ UpdateCartItem(p, c, l[1], l[2], q)

RemoveCartItemRequest(p, In) ==
    \E c \in In.carts, l \in In.lines : RemoveCartItem(p, c, l[1], l[2])

CheckoutRequest(p, In) ==
    \E c \in In.carts, cust \in In.customers : AdmitCheckout(In) /\ Checkout(p, c, cust)

GetProductRequest(p, In) == \E l \in In.lines : GetProduct(p, l[1])

\* the cart requests, one at a time, in slot p
CartRequest(p, In) ==
    \/ GetCartRequest(p, In)
    \/ AddToCartRequest(p, In)
    \/ UpdateCartItemRequest(p, In)
    \/ RemoveCartItemRequest(p, In)
    \/ respond(p)

\* the checkout and catalog requests, one at a time, in slot p
ShopRequest(p, In) ==
    \/ CheckoutRequest(p, In)
    \/ GetProductRequest(p, In)

\* one request at a time
SeqNext == CartRequest("r1", SeqInputs) \/ ShopRequest("r1", SeqInputs)

SeqSpec == Init /\ [][SeqNext]_vars

\* one cart request at a time, over more lines; checkout, which only empties
\* a cart, is left out
CartNext == CartRequest("r1", CartInputs)

CartSpec == Init /\ [][CartNext]_vars

\* requests interleave at their store calls and may stop between them
CrashNext == Next \/ \E p \in Procs : crash(p)

CrashSpec == Init /\ [][CrashNext]_vars

\* getCart, addItem and checkout requests interleave at their store calls
RaceNext ==
    \E p \in Procs :
        \/ get_cart(p, RaceInputs)
        \/ get_cart_insert(p)
        \/ return_get_cart(p)
        \/ add_to_cart(p, RaceInputs)
        \/ add_find(p)
        \/ add_update(p)
        \/ checkout(p, RaceInputs)
        \/ checkout_insert(p)
        \/ checkout_update(p)
        \/ respond(p)

RaceSpec == Init /\ [][RaceNext]_vars

\* one request at a time, while the catalog is edited
PriceNext ==
    \/ CartRequest("r1", PriceInputs)
    \/ CheckoutRequest("r1", PriceInputs)
    \/ edit_product

PriceSpec == Init /\ [][PriceNext]_vars

(***************************************************************************)
(* Properties.                                                             *)
(***************************************************************************)
\* the lines of items with product identifier pid and size s
LinesOf(items, pid, s) ==
    {i \in 1..Len(items) : items[i].product_id = pid /\ items[i].size = s}

\* the position, among the lines of items outside drop, of line i
Rank(items, drop, i) == Cardinality({j \in 1..i : j \notin drop})

\* new is items without the lines at the positions drop, in the same order
IsWithout(new, items, drop) ==
    /\ Len(new) = Len(items) - Cardinality(drop)
    /\ \A i \in (1..Len(items)) \ drop : new[Rank(items, drop, i)] = items[i]

\* C1: no cart document ever holds two line items with the same product_id
\* and size, whatever the interleaving of the requests' store calls
C1_UniqueLines ==
    \A d \in 1..Len(cart) :
        \A i, j \in 1..Len(cart[d].items) :
            (cart[d].items[i].product_id = cart[d].items[j].product_id
             /\ cart[d].items[i].size = cart[d].items[j].size) => i = j

\* a cart of two lines is stored while one request is about to write the cart
\* and another is between its store calls
C1_Witness ==
    /\ \E d \in 1..Len(cart) : Len(cart[d].items) = 2
    /\ \E p, q \in Procs :
         /\ p # q
         /\ pc[p] = "add_update"
         /\ pc[q] \in {"add_find", "add_update", "update_update", "remove_update",
                       "checkout_insert"}

\* C2: a sequential addItem(P, S, m) of an existing product on a cart that
\* holds a line (P, S) with quantity n leaves one line for (P, S), with
\* quantity n + m, the same number of lines and every other line as it was;
\* addItem(P, M, 2) on a cart without lines yields the single line with
\* quantity 2, and once more the single line with quantity 4
C2_AddMerges ==
    [][\A c \in CartInputs.addCarts, l \in CartInputs.lines, m \in CartInputs.addQty :
         LET old == Items(cart, c)
             new == Items(cart', c)
             hit == LinesOf(old, l[1], l[2])
         IN (m >= 1 /\ ObjectId(l[1]) \in DOMAIN product /\ AddToCart("r1", c, l[1], l[2], m))
            => /\ hit # {}
                  => /\ Len(new) = Len(old)
                     /\ Cardinality(LinesOf(new, l[1], l[2])) = 1
                     /\ \A i \in 1..Len(old) :
                          new[i] = IF i \in hit
                                   THEN [old[i] EXCEPT !.quantity = old[i].quantity + m]
                                   ELSE old[i]
                     /\ resp'["r1"].status = 200
                     /\ resp'["r1"].items = new
               /\ (old = <<>> /\ l[2] = "M" /\ m = 2)
                  => /\ Len(new) = 1
                     /\ new[1].product_id = l[1] /\ new[1].size = "M" /\ new[1].quantity = 2
               /\ (Len(old) = 1 /\ hit = {1} /\ old[1].quantity = 2 /\ l[2] = "M" /\ m = 2)
                  => Len(new) = 1 /\ new[1].quantity = 4
      ]_vars

\* the cart holds (p1, M) with quantity 2 after another line, and addItem(p1,
\* M, 2) acts on it: the line gets quantity 4 and the other line stays
C2_Witness ==
    /\ Len(Items(cart, "abc")) = 2
    /\ Items(cart, "abc")[1].product_id = "p2"
    /\ LinesOf(Items(cart, "abc"), "p1", "M") = {2}
    /\ Items(cart, "abc")[2].quantity = 2
    /\ ENABLED (/\ AddToCart("r1", "abc", "p1", "M", 2)
                /\ Items(cart', "abc")[2].quantity = 4
                /\ Items(cart', "abc")[1] = Items(cart, "abc")[1])

\* C3: updateItem(P, S, 0) on a cart that holds a line (P, S) removes it: the
\* cart stored afterwards has no line (P, S) and holds the other lines as they
\* were, in their order; the handler's own get_cart returns these lines, and
\* so does every later getCart, which changes no cart that exists
C3_UpdateZeroRemoves ==
    [][/\ \A c \in CartInputs.carts, l \in CartInputs.lines :
            LET old == Items(cart, c)
                new == Items(cart', c)
                hit == LinesOf(old, l[1], l[2])
            IN (hit # {} /\ UpdateCartItem("r1", c, l[1], l[2], 0))
               => /\ LinesOf(new, l[1], l[2]) = {}
                  /\ IsWithout(new, old, hit)
                  /\ find_one(cart', c) # 0
                  /\ resp'["r1"].status = 200
                  /\ resp'["r1"].items = new
       /\ \A c \in CartInputs.carts :
            (find_one(cart, c) # 0 /\ GetCart("r1", c))
            => /\ resp'["r1"].status = 200
               /\ resp'["r1"].items = Items(cart, c)
               /\ cart' = cart
      ]_vars

\* the cart holds three lines, (p1, M) in the middle, and updateItem(p1, M, 0)
\* acts on it: the two other lines are left, in their order
C3_Witness ==
    /\ Len(Items(cart, "abc")) = 3
    /\ LinesOf(Items(cart, "abc"), "p1", "M") = {2}
    /\ ENABLED (/\ UpdateCartItem("r1", "abc", "p1", "M", 0)
                /\ Items(cart', "abc") = <<Items(cart, "abc")[1], Items(cart, "abc")[3]>>)

\* C4: updateItem(P, S, q) with q > 0 on an existing cart sets the quantity of
\* the line (P, S) to q whatever it was, leaves every other line as it was and
\* where it was, and with no line (P, S) leaves the lines unchanged
C4_UpdateSets ==
    [][\A c \in CartInputs.carts, l \in CartInputs.lines, q \in CartInputs.updQty :
         LET old == Items(cart, c)
             new == Items(cart', c)
             hit == LinesOf(old, l[1], l[2])
         IN (q > 0 /\ find_one(cart, c) # 0 /\ UpdateCartItem("r1", c, l[1], l[2], q))
            => /\ Len(new) = Len(old)
               /\ \A i \in 1..Len(old) :
                    new[i] = IF i \in hit THEN [old[i] EXCEPT !.quantity = q] ELSE old[i]
               /\ hit = {} => new = old
               /\ resp'["r1"].status = 200
               /\ resp'["r1"].items = new
      ]_vars

\* the cart holds (p1, M) with quantity 2 between two other lines, and
\* updateItem(p1, M, 1) acts on it: the line gets quantity 1
C4_Witness ==
    /\ Len(Items(cart, "abc")) = 3
    /\ LinesOf(Items(cart, "abc"), "p1", "M") = {2}
    /\ Items(cart, "abc")[2].quantity = 2
    /\ ENABLED (/\ UpdateCartItem("r1", "abc", "p1", "M", 1)
                /\ Items(cart', "abc")[2].quantity = 1
                /\ Items(cart', "abc")[1] = Items(cart, "abc")[1]
                /\ Items(cart', "abc")[3] = Items(cart, "abc")[3])

\* C5: removeItem(P, S) on an existing cart succeeds whether or not a line
\* matches: with no line (P, S) the lines are unchanged, otherwise the line is
\* removed and the other lines are kept as they were, in their order
C5_RemoveFrame ==
    [][\A c \in CartInputs.carts, l \in CartInputs.lines :
         LET old == Items(cart, c)
             new == Items(cart', c)
             hit == LinesOf(old, l[1], l[2])
         IN (find_one(cart, c) # 0 /\ RemoveCartItem("r1", c, l[1], l[2]))
            => /\ resp'["r1"].status = 200
               /\ resp'["r1"].items = new
               /\ hit = {} => new = old
               /\ Cardinality(hit) <= 1
               /\ IsWithout(new, old, hit)
               /\ LinesOf(new, l[1], l[2]) = {}
      ]_vars

\* the cart holds three lines, none of them (p2, M), and removeItem(p2, M)
\* acts on it with success, leaving the lines; removeItem of the first line
\* leaves the two others
C5_Witness ==
    /\ Len(Items(cart, "abc")) = 3
    /\ LinesOf(Items(cart, "abc"), "p2", "M") = {}
    /\ LinesOf(Items(cart, "abc"), "p1", "L") = {1}
    /\ ENABLED (/\ RemoveCartItem("r1", "abc", "p2", "M")
                /\ resp'["r1"].status = 200
                /\ Items(cart', "abc") = Items(cart, "abc"))
    /\ ENABLED (/\ RemoveCartItem("r1", "abc", "p1", "L")
                /\ resp'["r1"].status = 200
                /\ Items(cart', "abc") = Tail(Items(cart, "abc")))

\* the sum of price_snapshot * quantity over the first n lines of items
RECURSIVE SumTo(_, _)
SumTo(items, n) ==
    IF n = 0 THEN 0 ELSE SumTo(items, n - 1) + items[n].price_snapshot * items[n].quantity

\* C6: a successful checkout returns and stores as the order's total the sum of
\* price_snapshot * quantity over the lines of the cart it read, rounded to two
\* fraction digits; lines (29.00 x 2) and (69.00 x 1) give 127.00, lines
\* (29.00 x 1) and (69.00 x 1) give 98.00
C6_CheckoutTotal ==
    [][\A c \in SeqInputs.carts, cust \in SeqInputs.customers :
         LET old == Items(cart, c)
             t == resp'["r1"].total
         IN (old # <<>> /\ Checkout("r1", c, cust))
            => /\ resp'["r1"].status = 200
               /\ Len(order') = Len(order) + 1
               /\ order'[Len(order')].total = t
               /\ t % 10 = 0
               /\ t - SumTo(old, Len(old)) \in -5..5
               /\ (/\ Len(old) = 2
                   /\ old[1].price_snapshot = 29000 /\ old[1].quantity = 2
                   /\ old[2].price_snapshot = 69000 /\ old[2].quantity = 1)
                  => t = 127000
               /\ (/\ Len(old) = 2
                   /\ old[1].price_snapshot = 29000 /\ old[1].quantity = 1
                   /\ old[2].price_snapshot = 69000 /\ old[2].quantity = 1)
                  => t = 98000
      ]_vars

\* a checkout has returned the total 127.00 for an order of the lines
\* (29.00 x 2) and (69.00 x 1)
C6_Witness ==
    /\ pc["r1"] = "done"
    /\ resp["r1"].status = 200
    /\ resp["r1"].detail = "received"
    /\ resp["r1"].total = 127000
    /\ resp["r1"].order_id \in 1..Len(order)
    /\ LET o == order[resp["r1"].order_id]
       IN /\ o.total = 127000
          /\ Len(o.items) = 2
          /\ o.items[1].price_snapshot = 29000 /\ o.items[1].quantity = 2
          /\ o.items[2].price_snapshot = 69000 /\ o.items[2].quantity = 1

\* C7: a successful sequential checkout of a cart leaves its document in place
\* with no lines; getCart on such a cart returns no lines and inserts no
\* document, and addItem on it stores the new line in the same document
C7_CartKeptEmpty ==
    [][/\ \A c \in SeqInputs.carts, cust \in SeqInputs.customers :
            (Items(cart, c) # <<>> /\ Checkout("r1", c, cust))
            => /\ find_one(cart', c) = find_one(cart, c)
               /\ find_one(cart', c) # 0
               /\ Items(cart', c) = <<>>
               /\ Len(cart') = Len(cart)
               /\ \A d \in 1..Len(cart) : d # find_one(cart, c) => cart'[d] = cart[d]
       /\ \A c \in SeqInputs.carts :
            (find_one(cart, c) # 0 /\ Items(cart, c) = <<>> /\ GetCart("r1", c))
            => /\ resp'["r1"].status = 200
               /\ resp'["r1"].items = <<>>
               /\ cart' = cart
       /\ \A c \in SeqInputs.addCarts, l \in SeqInputs.lines, m \in SeqInputs.addQty :
            (/\ find_one(cart, c) # 0 /\ Items(cart, c) = <<>>
             /\ m >= 1 /\ ObjectId(l[1]) \in DOMAIN product
             /\ AddToCart("r1", c, l[1], l[2], m))
            => /\ resp'["r1"].status = 200
               /\ Len(cart') = Len(cart)
               /\ Len(Items(cart', c)) = 1
               /\ Items(cart', c)[1].product_id = l[1]
               /\ Items(cart', c)[1].size = l[2]
               /\ Items(cart', c)[1].quantity = m
      ]_vars

\* the cart "abc" has been checked out and its document is stored with no
\* lines: getCart acts on it, returning no lines and leaving the carts, and
\* addItem acts on it, storing one line
C7_Witness ==
    /\ pc["r1"] = "idle"
    /\ order # <<>>
    /\ order[Len(order)].cart_id = "abc"
    /\ find_one(cart, "abc") # 0
    /\ Items(cart, "abc") = <<>>
    /\ ENABLED (/\ GetCart("r1", "abc")
                /\ resp'["r1"].items = <<>>
                /\ cart' = cart)
    /\ ENABLED (/\ AddToCart("r1", "abc", "p1", "M", 1)
                /\ Len(cart') = Len(cart)
                /\ Len(Items(cart', "abc")) = 1)

\* C8: a successful checkout appends one order, under an identifier no stored
\* order has, with the cart's identifier, the lines of the cart as read, the
\* customer given and status "received", and returns its identifier; a failed
\* checkout leaves the orders as they were
C8_OneOrder ==
    [][\A c \in SeqInputs.carts, cust \in SeqInputs.customers :
         Checkout("r1", c, cust)
         => IF resp'["r1"].status = 200
            THEN /\ Len(order') = Len(order) + 1
                 /\ SubSeq(order', 1, Len(order)) = order
                 /\ LET o == order'[Len(order')]
                    IN /\ \A i \in 1..Len(order) : order[i].id # o.id
                       /\ resp'["r1"].order_id = o.id
                       /\ o.cart_id = c
                       /\ o.items = Items(cart, c)
                       /\ o.items # <<>>
                       /\ o.customer = cust
                       /\ o.status = "received"
            ELSE order' = order
      ]_vars

\* a checkout of the cart "abc" holding two lines has returned its receipt
C8_Witness ==
    /\ pc["r1"] = "done"
    /\ resp["r1"].status = 200
    /\ resp["r1"].detail = "received"
    /\ resp["r1"].order_id \in 1..Len(order)
    /\ LET o == order[resp["r1"].order_id]
       IN o.cart_id = "abc" /\ Len(o.items) = 2 /\ o.customer = "alice"

\* C9: checkout on a cart identifier without a document, or on a cart without
\* lines, fails with "Cart is empty" and changes neither the carts nor the
\* orders
C9_EmptyCartFails ==
    [][\A c \in SeqInputs.carts, cust \in SeqInputs.customers :
         ((find_one(cart, c) = 0 \/ Items(cart, c) = <<>>) /\ Checkout("r1", c, cust))
         => /\ resp'["r1"].status = 400
            /\ resp'["r1"].detail = "Cart is empty"
            /\ cart' = cart
            /\ order' = order
            /\ product' = product
      ]_vars

\* a checkout has failed with "Cart is empty" while the cart "abc" is stored
\* without lines, no cart "xyz" is stored, and no order is stored
C9_Witness ==
    /\ pc["r1"] = "done"
    /\ resp["r1"].status = 400
    /\ resp["r1"].detail = "Cart is empty"
    /\ find_one(cart, "abc") # 0
    /\ Items(cart, "abc") = <<>>
    /\ find_one(cart, "xyz") = 0
    /\ order = <<>>

\* C10: addItem with a well-formed identifier of no product fails with
\* "Product not found" and writes nothing: carts and orders stay as they were,
\* whether or not the cart exists
C10_ProductNotFound ==
    [][\A c \in SeqInputs.addCarts, l \in SeqInputs.lines, m \in SeqInputs.addQty :
         (/\ m >= 1
          /\ ObjectId(l[1]) # InvalidId
          /\ ObjectId(l[1]) \notin DOMAIN product
          /\ AddToCart("r1", c, l[1], l[2], m))
         => /\ resp'["r1"].status = 404
            /\ resp'["r1"].detail = "Product not found"
            /\ cart' = cart
            /\ order' = order
            /\ product' = product
      ]_vars

\* the cart "abc" is stored with a line, no cart "xyz" is stored, an order is
\* stored, and addItem of the unknown product "p9" acts on either cart: it
\* fails and the carts stay as they were
C10_Witness ==
    /\ Items(cart, "abc") # <<>>
    /\ find_one(cart, "xyz") = 0
    /\ order # <<>>
    /\ ENABLED (/\ AddToCart("r1", "abc", "p9", "M", 1)
                /\ resp'["r1"].status = 404
                /\ cart' = cart)
    /\ ENABLED (/\ AddToCart("r1", "xyz", "p9", "M", 1)
                /\ resp'["r1"].status = 404
                /\ cart' = cart)

\* C11: updateItem and removeItem on a cart identifier without a document fail
\* with "Cart not found" and leave carts, orders and products as they were (no
\* cart is created); addItem of an existing product on such an identifier
\* succeeds and appends the cart document, holding the new line alone
C11_CartNotFound ==
    [][/\ \A c \in CartInputs.carts, l \in CartInputs.lines, q \in CartInputs.updQty :
            (q >= 0 /\ find_one(cart, c) = 0 /\ UpdateCartItem("r1", c, l[1], l[2], q))
            => /\ resp'["r1"].status = 404
               /\ resp'["r1"].detail = "Cart not found"
               /\ cart' = cart /\ order' = order /\ product' = product
       /\ \A c \in CartInputs.carts, l \in CartInputs.lines :
            (find_one(cart, c) = 0 /\ RemoveCartItem("r1", c, l[1], l[2]))
            => /\ resp'["r1"].status = 404
               /\ resp'["r1"].detail = "Cart not found"
               /\ cart' = cart /\ order' = order /\ product' = product
       /\ \A c \in CartInputs.addCarts, l \in CartInputs.lines, m \in CartInputs.addQty :
            (/\ m >= 1 /\ ObjectId(l[1]) \in DOMAIN product /\ find_one(cart, c) = 0
             /\ AddToCart("r1", c, l[1], l[2], m))
            => /\ resp'["r1"].status = 200
               /\ Len(cart') = Len(cart) + 1
               /\ SubSeq(cart', 1, Len(cart)) = cart
               /\ cart'[Len(cart')].cart_id = c
               /\ Len(Items(cart', c)) = 1
               /\ Items(cart', c)[1].product_id = l[1]
               /\ Items(cart', c)[1].size = l[2]
               /\ Items(cart', c)[1].quantity = m
               /\ resp'["r1"].items = Items(cart', c)
      ]_vars

\* no cart "abc" is stored while the cart "xyz" is: updateItem and removeItem
\* on "abc" fail and leave the carts, addItem on "abc" appends its document
C11_Witness ==
    /\ find_one(cart, "abc") = 0
    /\ find_one(cart, "xyz") # 0
    /\ ENABLED (/\ UpdateCartItem("r1", "abc", "p1", "M", 3)
                /\ resp'["r1"].status = 404
                /\ cart' = cart)
    /\ ENABLED (/\ UpdateCartItem("r1", "abc", "p1", "M", 0)
                /\ resp'["r1"].status = 404
                /\ cart' = cart)
    /\ ENABLED (/\ RemoveCartItem("r1", "abc", "p1", "M")
                /\ resp'["r1"].status = 404
                /\ cart' = cart)
    /\ ENABLED (/\ AddToCart("r1", "abc", "p1", "M", 1)
                /\ resp'["r1"].status = 200
                /\ Len(cart') = 2
                /\ Len(Items(cart', "abc")) = 1)

\* the three snapshots of a line
Snapshots(it) == <<it.price_snapshot, it.title_snapshot, it.image_snapshot>>

\* C12: no step (a merging addItem, an updateItem, a removeItem, a getCart, a
\* catalog edit) changes the price, title or image snapshot of a line a cart
\* keeps; a line addItem appends takes them from the product as stored at that
\* step; checkout stores the lines with their snapshots and totals the
\* snapshot prices, whatever the catalog price is by then
C12_SnapshotsFixed ==
    [][/\ \A c \in PriceInputs.carts :
            \A i \in 1..Len(Items(cart, c)), j \in 1..Len(Items(cart', c)) :
                (/\ Items(cart, c)[i].product_id = Items(cart', c)[j].product_id
                 /\ Items(cart, c)[i].size = Items(cart', c)[j].size)
                => Snapshots(Items(cart', c)[j]) = Snapshots(Items(cart, c)[i])
       /\ \A c \in PriceInputs.addCarts, l \in PriceInputs.lines, m \in PriceInputs.addQty :
            (/\ LinesOf(Items(cart, c), l[1], l[2]) = {}
             /\ AddToCart("r1", c, l[1], l[2], m))
            => LET new == Items(cart', c)
                   prod == product[ObjectId(l[1])]
               IN /\ Len(new) = Len(Items(cart, c)) + 1
                  /\ Snapshots(new[Len(new)]) = <<prod.price, prod.title, prod.images[1]>>
       /\ \A c \in PriceInputs.carts, cust \in PriceInputs.customers :
            (Items(cart, c) # <<>> /\ Checkout("r1", c, cust))
            => /\ order'[Len(order')].items = Items(cart, c)
               /\ order'[Len(order')].total
                      = Round2(SumTo(Items(cart, c), Len(Items(cart, c))))
               /\ resp'["r1"].total = order'[Len(order')].total
      ]_vars

\* the cart holds the line (p1, M), added at 29.00 with quantity 2, and then a
\* line (p2, L); the catalog price of p1 is now 35.00: a merging addItem, an
\* updateItem, a removeItem of the other line and a getCart act on the cart and
\* leave the snapshots of (p1, M), and checkout totals 2 x 29.00 + 69.00
C12_Witness ==
    /\ product[1] = EditedProduct
    /\ Len(Items(cart, "abc")) = 2
    /\ LinesOf(Items(cart, "abc"), "p1", "M") = {1}
    /\ Items(cart, "abc")[1].quantity = 2
    /\ Snapshots(Items(cart, "abc")[1]) = <<29000, "Classic Logo Tee", "img-tee">>
    /\ ENABLED (/\ AddToCart("r1", "abc", "p1", "M", 1)
                /\ Items(cart', "abc")[1].quantity = 3
                /\ Snapshots(Items(cart', "abc")[1]) = Snapshots(Items(cart, "abc")[1]))
    /\ ENABLED (/\ UpdateCartItem("r1", "abc", "p1", "M", 3)
                /\ Items(cart', "abc")[1].quantity = 3
                /\ Snapshots(Items(cart', "abc")[1]) = Snapshots(Items(cart, "abc")[1]))
    /\ ENABLED (/\ RemoveCartItem("r1", "abc", "p2", "L")
                /\ Items(cart', "abc") = <<Items(cart, "abc")[1]>>)
    /\ ENABLED (/\ GetCart("r1", "abc")
                /\ resp'["r1"].items = Items(cart, "abc"))
    /\ ENABLED (/\ Checkout("r1", "abc", "alice")
                /\ resp'["r1"].total = 127000
                /\ order'[Len(order')].items[1].price_snapshot = 29000)

C14_PositiveQuantities ==
    \A d \in 1..Len(cart) :
        \A i \in 1..Len(cart[d].items) : cart[d].items[i].quantity >= 1

\* the cart holds two lines, one of them (p1, M): addItem with quantity 0 and
\* updateItem with quantity -1 are refused and leave the carts, and updateItem
\* with quantity 0 drops the line
C14_Witness ==
    /\ Len(Items(cart, "abc")) = 2
    /\ LinesOf(Items(cart, "abc"), "p1", "M") # {}
    /\ ENABLED (/\ AddToCart("r1", "abc", "p1", "M", 0)
                /\ resp'["r1"].status = 422
                /\ cart' = cart)
    /\ ENABLED (/\ UpdateCartItem("r1", "abc", "p1", "M", -1)
                /\ resp'["r1"].status = 422
                /\ cart' = cart)
    /\ ENABLED (/\ UpdateCartItem("r1", "abc", "p1", "M", 0)
                /\ Len(Items(cart', "abc")) = 1
                /\ LinesOf(Items(cart', "abc"), "p1", "M") = {})

\* C15: get product and add item, given a product identifier that is no
\* ObjectId, fail with a client error status (4xx) and leave products, carts
\* and orders as they were
C15_InvalidIdentifier ==
    [][/\ \A l \in SeqInputs.lines :
            (ObjectId(l[1]) = InvalidId /\ GetProduct("r1", l[1]))
            => /\ resp'["r1"].status \in 400..499
               /\ cart' = cart /\ order' = order /\ product' = product
       /\ \A c \in SeqInputs.addCarts, l \in SeqInputs.lines, m \in SeqInputs.addQty :
            (m >= 1 /\ ObjectId(l[1]) = InvalidId /\ AddToCart("r1", c, l[1], l[2], m))
            => /\ resp'["r1"].status \in 400..499
               /\ cart' = cart /\ order' = order /\ product' = product
      ]_vars

\* C16: the write of a cart mutation replaces the lines stored for its cart by
\* the lines the request computed from its own earlier read, whatever another
\* request has stored in between, and leaves the other documents; the request
\* then returns the cart with success
C16_LastWriterWins ==
    [][\A p \in Procs :
         /\ (add_update(p) \/ update_update(p) \/ remove_update(p))
            => /\ Items(cart', req[p].cart_id) = loc[p].items
               /\ \A d \in 1..Len(cart) :
                    d # find_one(cart, req[p].cart_id) => cart'[d] = cart[d]
         /\ (pc[p] = "return_get_cart" /\ return_get_cart(p))
            => /\ pc'[p] = "done"
               /\ resp'[p].status = 200
      ]_vars

\* two addItem requests on the cart "abc" have both read it without lines; the
\* first has written its line (p1, M) and is about to return the cart, the
\* second is about to write its line (p2, L) alone: its write leaves the cart
\* without the line (p1, M)
C16_Witness ==
    \E p, q \in Procs :
        /\ p # q
        /\ pc[p] = "return_get_cart" /\ req[p].op = "add_to_cart"
        /\ pc[q] = "add_update" /\ req[q].cart_id = "abc"
        /\ Len(Items(cart, "abc")) = 1
        /\ LinesOf(Items(cart, "abc"), "p1", "M") = {1}
        /\ Len(loc[q].items) = 1
        /\ LinesOf(loc[q].items, "p2", "L") = {1}
        /\ ENABLED (/\ add_update(q)
                    /\ Len(Items(cart', "abc")) = 1
                    /\ LinesOf(Items(cart', "abc"), "p1", "M") = {}
                    /\ LinesOf(Items(cart', "abc"), "p2", "L") = {1})

\* C17: checkout inserts its order, holding the non-empty lines it read, in a
\* step that leaves the carts, and empties the cart in a later step that
\* leaves the orders; a checkout between the two steps has its order stored,
\* and stopping there leaves that order and the carts as they are; no step of
\* checkout empties a cart before its order is stored
C17_InsertThenReset ==
    [][\A p \in Procs :
         /\ checkout_insert(p)
            => /\ cart' = cart
               /\ loc[p].items # <<>>
               /\ order' = Append(order, order'[Len(order')])
               /\ order'[Len(order')].cart_id = req[p].cart_id
               /\ order'[Len(order')].items = loc[p].items
         /\ pc[p] = "checkout_update"
            => \E i \in 1..Len(order) :
                  /\ order[i].id = loc[p].inserted_id
                  /\ order[i].cart_id = req[p].cart_id
                  /\ order[i].items # <<>>
         /\ checkout_update(p)
            => /\ order' = order
               /\ Items(cart', req[p].cart_id) = <<>>
         /\ (pc[p] \in {"checkout_insert", "checkout_update"} /\ crash(p))
            => cart' = cart /\ order' = order
      ]_vars

\* a checkout of the cart "abc" stands between its two writes while no other
\* request is in flight: its order is stored and the cart still holds the
\* order's lines, and a stop there leaves both
C17_Witness ==
    \E p \in Procs :
        /\ pc[p] = "checkout_update"
        /\ \A q \in Procs \ {p} : pc[q] = "idle"
        /\ Len(order) = 1
        /\ order[1].cart_id = "abc"
        /\ Items(cart, "abc") # <<>>
        /\ Items(cart, "abc") = order[1].items
        /\ ENABLED (/\ crash(p)
                    /\ pc'[p] = "idle"
                    /\ cart' = cart
                    /\ order' = order)

\* C18: in every reachable state, whatever the interleaving of the requests'
\* find and insert or upsert steps, the cart collection holds at most one
\* document for a cart identifier
C18_OneDocumentPerCart ==
    \A c \in ConcInputs.carts : Cardinality(Matching(cart, c)) <= 1

\* C19: when checkout and addItem run on the same cart at the same time, the
\* reset of checkout discards no line: every line stored in the cart when
\* checkout empties it is in the order of that checkout, with at least its
\* quantity
C19_NoLineLost ==
    [][\A p \in Procs :
         checkout_update(p)
         => LET old == Items(cart, req[p].cart_id)
            IN \A i \in 1..Len(old) :
                 \E k \in 1..Len(order) :
                    /\ order[k].id = loc[p].inserted_id
                    /\ \E j \in 1..Len(order[k].items) :
                          /\ order[k].items[j].product_id = old[i].product_id
                          /\ order[k].items[j].size = old[i].size
                          /\ order[k].items[j].quantity >= old[i].quantity
      ]_vars

\* C20: the contents of a cart become at most one order: when checkout inserts
\* an order for a cart that has an order already, every earlier checkout of
\* the cart has reset it and the cart holds lines again
C20_OneOrderPerContents ==
    [][\A p \in Procs :
         (/\ checkout_insert(p)
          /\ \E i \in 1..Len(order) : order[i].cart_id = req[p].cart_id)
         => /\ \A q \in Procs \ {p} :
                 ~(pc[q] = "checkout_update" /\ req[q].cart_id = req[p].cart_id)
            /\ Items(cart, req[p].cart_id) # <<>>
      ]_vars

====
